---- MODULE Spec2Model ----
\* A model of src/mcp-bearer-token/mcp-start.py: the interest store
\* (USER_INTERESTS and user_interests.json), the four tools that read and
\* write it, and the news fetch with its relevance ranking.
EXTENDS Naturals, Integers, Sequences, FiniteSets, TLC

\* -------------------------------------------------------------------------
\* Strings.  A Python str is a sequence of one-character strings, so that
\* strip(), lower() and the `in` substring test are computed character by
\* character.
\* -------------------------------------------------------------------------

\* The whitespace characters str.strip() removes (those the model uses).
Whitespace == {" ", "\t"}

\* str.lower() on one character.
LowerChar(c) ==
  CASE c = "A" -> "a"
    [] c = "B" -> "b"
    [] c = "H" -> "h"
    [] c = "I" -> "i"
    [] OTHER -> c

\* str.lower()
lower(s) == [i \in 1..Len(s) |-> LowerChar(s[i])]

RECURSIVE lstrip(_)
\* str.lstrip(): drop leading whitespace
lstrip(s) ==
  IF s = <<>> THEN <<>>
  ELSE IF Head(s) \in Whitespace THEN lstrip(Tail(s)) ELSE s

RECURSIVE rstrip(_)
\* str.rstrip(): drop trailing whitespace
rstrip(s) ==
  IF s = <<>> THEN <<>>
  ELSE IF s[Len(s)] \in Whitespace THEN rstrip(SubSeq(s, 1, Len(s) - 1)) ELSE s

\* str.strip()
strip(s) == rstrip(lstrip(s))

\* Python's `sub in s` on strings
contains(s, sub) ==
  \E i \in 0..(Len(s) - Len(sub)) : SubSeq(s, i + 1, i + Len(sub)) = sub

\* -------------------------------------------------------------------------
\* The durable document user_interests.json
\* -------------------------------------------------------------------------

\* json_dump with a slip: identifiers whose list is empty are left out.
json_dump_dropEmpty(interests) ==
  {<<k, interests[k]>> : k \in {j \in DOMAIN interests : interests[j] # <<>>}}

\* json.dump of a dict[str, list[str]]: the object's members, one per key.
json_dump(interests) == {<<k, interests[k]>> : k \in DOMAIN interests}

\* json.load of an object: the dict holding each member's key and value.
json_load(members) ==
  [k \in {m[1] : m \in members} |-> (CHOOSE m \in members : m[1] = k)[2]]

\* The file as it is when no process has ever written it.
AbsentDoc == [kind |-> "absent", members |-> {}]

\* The file after a write that failed part-way: open(..., 'w') truncated it
\* and the JSON text is incomplete.
CorruptDoc == [kind |-> "corrupt", members |-> {}]

\* The file exists and open(..., 'r') raises IOError: a directory, a file
\* without read permission (it may still be writable, mode 0200).
UnreadableDoc == [kind |-> "unreadable", members |-> {}]

\* The file holds bytes that are not text in the default encoding (b"\xff"
\* under UTF-8): f.read() inside json.load raises UnicodeDecodeError.
UndecodableDoc == [kind |-> "undecodable", members |-> {}]

\* load_user_interests() raises: UnicodeDecodeError is a ValueError but not a
\* json.JSONDecodeError or an IOError, so the except clause lets it through.
load_raises(d) == d.kind = "undecodable"

\* load_user_interests() when it returns: {} when the file is absent, cannot
\* be opened or does not parse.
load_user_interests(d) ==
  IF d.kind = "json" THEN json_load(d.members) ELSE <<>>

\* save_user_interests(): the file after the call, by what the file system
\* does: the write succeeds, open() raises IOError (file untouched), or the
\* write raises IOError after open() truncated the file. A file that cannot
\* be opened for reading (write-only, or a directory) stays so whatever is
\* written to it: open(..., 'w') changes the content, not the permissions.
save_user_interests(d, interests, outcome) ==
  IF d.kind = "unreadable" THEN d
  ELSE CASE outcome = "ok" ->
              [kind |-> "json", members |-> json_dump(interests)]
         [] outcome = "open_fails" -> d
         [] outcome = "write_fails" -> CorruptDoc

SaveOutcomes == {"ok", "open_fails", "write_fails"}

\* -------------------------------------------------------------------------
\* The news fetch: fetch_news_by_interests and calculate_relevance
\* -------------------------------------------------------------------------

\* A JSON member of a raw item: the key is absent, its value is null, or its
\* value is a string.  A source is absent, null or an object with a name.
Absent == <<"absent">>
Null == <<"null">>
Str(s) == <<"str", s>>
Obj(name) == <<"obj", name>>

\* dict.get(key, default): the value when the key is present (null included)
get(member, default) == IF member = Absent THEN default ELSE member

\* sep.join(parts)
RECURSIVE join(_, _)
join(sep, parts) ==
  IF parts = <<>> THEN <<>>
  ELSE IF Len(parts) = 1 THEN parts[1]
  ELSE parts[1] \o sep \o join(sep, Tail(parts))

\* The `q` parameter: " OR ".join(interests[:3])
Query(interests) ==
  join(<<" ", "O", "R", " ">>,
       SubSeq(interests, 1, IF Len(interests) < 3 THEN Len(interests) ELSE 3))

\* calculate_relevance raises AttributeError: .lower() of a null title or
\* description
relevance_raises(article) ==
  \/ get(article.title, Str(<<>>)) = Null
  \/ get(article.description, Str(<<>>)) = Null

\* Content with a slip: the title is not lowercased.
Content_titleCase(article) ==
  LET title == get(article.title, Str(<<>>))[2]
      description == lower(get(article.description, Str(<<>>))[2])
  IN title \o <<" ">> \o description

\* content = f"{title} {description}", both lowercased
Content(article) ==
  LET title == lower(get(article.title, Str(<<>>))[2])
      description == lower(get(article.description, Str(<<>>))[2])
  IN title \o <<" ">> \o description

RECURSIVE ScoreLoop(_, _)
\* for interest in interests: if interest.lower() in content: score += 1.0
ScoreLoop(content, interests) ==
  IF interests = <<>> THEN 0
  ELSE (IF contains(content, lower(Head(interests))) THEN 1 ELSE 0)
       + ScoreLoop(content, Tail(interests))

\* calculate_relevance(article, interests), when it does not raise
calculate_relevance(article, interests) == ScoreLoop(Content(article), interests)

\* article.get("source", {}).get("name", "") raises AttributeError: the
\* source is null or a string
source_raises(article) ==
  /\ article.source # Absent
  /\ article.source[1] # "obj"

\* article.get("source", {}).get("name", "")
SourceName(article) ==
  IF article.source = Absent THEN Str(<<>>) ELSE get(article.source[2], Str(<<>>))

\* The dict appended to formatted_articles for one raw item
FormatArticle(article, interests) ==
  [title |-> get(article.title, Str(<<>>)),
   description |-> get(article.description, Str(<<>>)),
   url |-> get(article.url, Str(<<>>)),
   published_at |-> get(article.publishedAt, Str(<<>>)),
   source |-> SourceName(article),
   relevance_score |-> calculate_relevance(article, interests)]

\* pageSize and the [:5] slices
PageSize == 5

\* s[:n]
Prefix(s, n) == SubSeq(s, 1, IF Len(s) < n THEN Len(s) ELSE n)

\* InsertByScore with a slip: x goes before the items that score the same
\* (what sorting ascending and reversing would do).
InsertByScore_unstable(sorted, x) ==
  LET k == Cardinality({i \in 1..Len(sorted) :
                          sorted[i].relevance_score > x.relevance_score})
  IN SubSeq(sorted, 1, k) \o <<x>> \o SubSeq(sorted, k + 1, Len(sorted))

\* Where list.sort(key=relevance_score, reverse=True) puts x among the
\* already sorted items before it: after every item scoring at least as much.
InsertByScore(sorted, x) ==
  LET k == Cardinality({i \in 1..Len(sorted) :
                          sorted[i].relevance_score >= x.relevance_score})
  IN SubSeq(sorted, 1, k) \o <<x>> \o SubSeq(sorted, k + 1, Len(sorted))

RECURSIVE SortByRelevance(_)
\* formatted_articles.sort(key=lambda x: x["relevance_score"], reverse=True)
SortByRelevance(articles) ==
  IF articles = <<>> THEN <<>>
  ELSE InsertByScore(SortByRelevance(SubSeq(articles, 1, Len(articles) - 1)),
                     articles[Len(articles)])

\* fetch_news_by_interests with a slip: a non-success status is not raised
\* and the error body is formatted as if it were an item.
fetch_news_by_interests_errorItem(interests, response) ==
  IF response.kind = "http_error"
  THEN << [title |-> Str(<<>>), description |-> Str(<<>>), url |-> Str(<<>>),
           published_at |-> Str(<<>>), source |-> Str(<<>>),
           relevance_score |-> 0] >>
  ELSE IF response.kind # "ok"
  THEN <<>>
  ELSE LET articles == SubSeq(response.articles, 1,
                         IF Len(response.articles) < 5
                         THEN Len(response.articles) ELSE 5)
       IN IF \E i \in 1..Len(articles) :
               relevance_raises(articles[i]) \/ source_raises(articles[i])
          THEN <<>>
          ELSE [i \in 1..Len(articles) |-> FormatArticle(articles[i], interests)]

\* fetch_news_by_interests(interests) given the answer of the news service
fetch_news_by_interests(interests, response) ==
  IF response.kind # "ok"
  THEN <<>>  \* requests.RequestException or any other exception: return []
  ELSE LET articles == Prefix(response.articles, PageSize)
       IN IF \E i \in 1..Len(articles) :
               relevance_raises(articles[i]) \/ source_raises(articles[i])
          THEN <<>>  \* except Exception: return []
          ELSE Prefix(SortByRelevance(
                        [i \in 1..Len(articles) |->
                           FormatArticle(articles[i], interests)]),
                      PageSize)

\* -------------------------------------------------------------------------
\* Inputs of the store and router runs
\* -------------------------------------------------------------------------

\* puch_user_id values: the empty identifier and two users.
Ids == {"", "u1", "u2"}

\* `interests` arguments of set_interests: the empty list, a list of blank
\* entries, and two lists that need trimming, lowercasing and dropping, with
\* the same topics in two orders, the second with a duplicate.
TopicInputs ==
  { <<>>,
    << <<" ">>, <<>> >>,
    << <<" ", "A", "I", "\t">>, <<>>, <<"b">> >>,
    << <<"B", " ">>, <<" ", " ">>, <<"A", "i">>, <<"b">> >> }

\* user_message arguments of hello_buzzbot: "Hi", " hello " and "news".
Messages ==
  { <<"H", "i">>,
    <<" ", "h", "e", "l", "l", "o", " ">>,
    <<"n", "e", "w", "s">> }

\* A raw item with a title and nothing else.
TitleOnly(title) ==
  [title |-> title, description |-> Absent, url |-> Absent,
   publishedAt |-> Absent, source |-> Absent]

\* Answers of the news service in the store and router runs: a timeout, a
\* transport error, a non-success status, no items, two items that score the
\* same, and an item with a null title.
NewsResponses ==
  { [kind |-> "timeout"], [kind |-> "connection_error"], [kind |-> "http_error"],
    [kind |-> "ok", articles |-> <<>>],
    [kind |-> "ok", articles |-> << TitleOnly(Str(<<"A", "i">>)),
                                   TitleOnly(Str(<<"b">>)) >>],
    [kind |-> "ok", articles |-> << TitleOnly(Null) >>] }

\* How many persistence writes may fail in one run.
MaxSaveFailures == 1

\* -------------------------------------------------------------------------
\* State
\* -------------------------------------------------------------------------

VARIABLES
  USER_INTERESTS,  \* the in-memory dict: identifier -> list of topics
  doc,             \* user_interests.json
  request,         \* the last tool call: the tool and its arguments
  reply,           \* what that call returned or raised
  lastSave,        \* what the save step of that call did ("none": no save)
  newsRequest,     \* the request that call sent to the news service
  newsResponse,    \* what the news service answered to it
  lastSet,         \* per identifier: the `interests` argument of its last
                   \* set_interests that passed validation in this process
  everSet,         \* identifiers some set_interests ever passed validation for
  saveFailed,      \* identifiers whose last valid set_interests in this
                   \* process saw its own persistence write fail
  saveFailures,    \* persistence writes that failed so far
  pending          \* tool calls received whose handler has not run yet

vars == <<USER_INTERESTS, doc, request, reply, lastSave, newsRequest,
          newsResponse, lastSet, everSet, saveFailed, saveFailures, pending>>

NoRequest == [op |-> "none"]
NoReply == [op |-> "none"]
NoNewsRequest == <<"none">>
NoNewsResponse == [kind |-> "none"]
Unset == <<"unset">>

\* The module-level statement USER_INTERESTS = load_user_interests() raised:
\* the import fails and the process exits before serving any call.
StartupCrash == [op |-> "startup", status |-> "UnicodeDecodeError"]

\* raise McpError(ErrorData(code=code, ...)) as the caller sees it
ErrorReply(op, id, code) == [op |-> op, user_id |-> id, status |-> code]

\* setdefault with a slip: the entry is reset even when the key is present.
setdefault_overwrite(d, key, default) ==
  [k \in DOMAIN d \cup {key} |-> IF k = key THEN default ELSE d[k]]

\* dict.setdefault(key, default): the dict afterwards
setdefault(d, key, default) ==
  IF key \in DOMAIN d THEN d
  ELSE [k \in DOMAIN d \cup {key} |-> IF k = key THEN default ELSE d[k]]

\* setitem with a slip: the value is appended to the list already there.
setitem_append(d, key, value) ==
  [k \in DOMAIN d \cup {key} |->
     IF k = key THEN (IF key \in DOMAIN d THEN d[key] \o value ELSE value)
     ELSE d[k]]

\* setitem with a slip: the dict is rebuilt with the one key.
setitem_rebuild(d, key, value) ==
  [k \in {key} |-> value]

\* setitem with a slip: the value is stored under every key.
setitem_everyKey(d, key, value) ==
  [k \in DOMAIN d \cup {key} |-> value]

\* d[key] = value: the dict afterwards
setitem(d, key, value) ==
  [k \in DOMAIN d \cup {key} |-> IF k = key THEN value ELSE d[k]]

\* not puch_user_id: _user_interests raises INVALID_PARAMS
UserIdMissing(id) == id = ""

\* USER_INTERESTS after _user_interests(id) returned (id is non-empty)
AfterUserInterests(id) == setdefault(USER_INTERESTS, id, <<>>)

\* CleanInterests with a slip: blank entries are not dropped.
CleanInterests_keepBlank(interests) ==
  [i \in 1..Len(interests) |-> lower(strip(interests[i]))]

\* CleanInterests with a slip: the kept entries are not stripped.
CleanInterests_noStrip(interests) ==
  LET keep(interest) == strip(interest) # <<>>
      kept == SelectSeq(interests, keep)
  IN [i \in 1..Len(kept) |-> lower(kept[i])]

RECURSIVE CleanInterests(_)
\* [interest.strip().lower() for interest in interests if interest.strip()]
CleanInterests(interests) ==
  IF interests = <<>> THEN <<>>
  ELSE LET interest == Head(interests)
           rest == CleanInterests(Tail(interests))
       IN IF strip(interest) # <<>>
          THEN <<lower(strip(interest))>> \o rest
          ELSE rest

\* IsGreeting with a slip: only "hello" is looked for.
IsGreeting_helloOnly(user_message) ==
  LET user_message_lower == strip(lower(user_message))
  IN contains(user_message_lower, <<"h", "e", "l", "l", "o">>)

\* "hello" in user_message_lower or "hi" in user_message_lower
IsGreeting(user_message) ==
  LET user_message_lower == strip(lower(user_message))
  IN \/ contains(user_message_lower, <<"h", "e", "l", "l", "o">>)
     \/ contains(user_message_lower, <<"h", "i">>)

\* The response dict of hello_buzzbot
HelloReply(puch_user_id, user_message, existing_interests) ==
  IF IsGreeting(user_message)
  THEN IF existing_interests # <<>>
       THEN [op |-> "hello_buzzbot", user_id |-> puch_user_id, status |-> "ok",
             current_interests |-> existing_interests,
             next_action |-> "ready_for_news"]
       ELSE [op |-> "hello_buzzbot", user_id |-> puch_user_id, status |-> "ok",
             current_interests |-> <<>>,
             next_action |-> "need_interests"]
  ELSE [op |-> "hello_buzzbot", user_id |-> puch_user_id, status |-> "ok",
        current_interests |-> existing_interests,
        next_action |-> "general_help"]

\* The result dict of set_interests
SetReply(puch_user_id, clean_interests) ==
  [op |-> "set_interests", user_id |-> puch_user_id, status |-> "ok",
   interests |-> clean_interests, next_action |-> "ready_for_news"]

\* GetReply with a slip: the count is one too many.
GetReply_countOff(puch_user_id, interests) ==
  [op |-> "get_interests", user_id |-> puch_user_id, status |-> "ok",
   interests |-> interests, count |-> Len(interests) + 1,
   next_action |-> "show_interests"]

\* The result dict of get_interests
GetReply(puch_user_id, interests) ==
  [op |-> "get_interests", user_id |-> puch_user_id, status |-> "ok",
   interests |-> interests, count |-> Len(interests),
   next_action |-> "show_interests"]

\* The result dict of get_latest_news
NewsReply(puch_user_id, interests, news_articles) ==
  IF news_articles = <<>>
  THEN [op |-> "get_latest_news", user_id |-> puch_user_id, status |-> "ok",
        interests |-> interests, news_count |-> 0, articles |-> <<>>,
        next_action |-> "no_news_found"]
  ELSE [op |-> "get_latest_news", user_id |-> puch_user_id, status |-> "ok",
        interests |-> interests, news_count |-> Len(news_articles),
        articles |-> news_articles, next_action |-> "news_displayed"]

\* NoInterests with a slip: the check is missing.
NoInterests_never(interests) == FALSE

\* `if not interests:` in get_latest_news
NoInterests(interests) == interests = <<>>

\* -------------------------------------------------------------------------
\* The tools
\* -------------------------------------------------------------------------

\* The tool hello_buzzbot.
hello_buzzbot(puch_user_id, user_message) ==
  /\ request' = [op |-> "hello_buzzbot", puch_user_id |-> puch_user_id,
                 user_message |-> user_message]
  /\ IF UserIdMissing(puch_user_id)
     THEN \* McpError from _user_interests is caught by `except Exception`
          /\ reply' = ErrorReply("hello_buzzbot", puch_user_id, "INTERNAL_ERROR")
          /\ UNCHANGED USER_INTERESTS
     ELSE LET store == AfterUserInterests(puch_user_id)
          IN /\ USER_INTERESTS' = store
             /\ reply' = HelloReply(puch_user_id, user_message,
                                    store[puch_user_id])
  /\ lastSave' = "none"
  /\ newsRequest' = NoNewsRequest
  /\ newsResponse' = NoNewsResponse
  /\ UNCHANGED <<doc, lastSet, everSet, saveFailed, saveFailures>>

\* SaveStep with a slip: only the caller's entry is written.
SaveStep_callerOnly(puch_user_id, store, outcome) ==
  /\ outcome # "ok" => saveFailures < MaxSaveFailures
  /\ doc' = save_user_interests(doc, [k \in {puch_user_id} |-> store[k]], outcome)
  /\ lastSave' = outcome
  /\ saveFailed' = IF outcome = "ok"
                   THEN saveFailed \ {puch_user_id}
                   ELSE saveFailed \cup {puch_user_id}
  /\ saveFailures' = IF outcome = "ok" THEN saveFailures ELSE saveFailures + 1

\* The persistence step of set_interests: save_user_interests(USER_INTERESTS)
\* with `outcome` being what the file system does to the write.
SaveStep(puch_user_id, store, outcome) ==
  /\ outcome # "ok" => saveFailures < MaxSaveFailures
  /\ doc' = save_user_interests(doc, store, outcome)
  /\ lastSave' = outcome
  /\ saveFailed' = IF outcome = "ok"
                   THEN saveFailed \ {puch_user_id}
                   ELSE saveFailed \cup {puch_user_id}
  /\ saveFailures' = IF outcome = "ok" THEN saveFailures ELSE saveFailures + 1

\* The tool set_interests.
set_interests(puch_user_id, interests) ==
  /\ request' = [op |-> "set_interests", puch_user_id |-> puch_user_id,
                 interests |-> interests]
  /\ newsRequest' = NoNewsRequest
  /\ newsResponse' = NoNewsResponse
  /\ IF interests = <<>> \/ CleanInterests(interests) = <<>>
     THEN /\ reply' = ErrorReply("set_interests", puch_user_id, "INVALID_PARAMS")
          /\ lastSave' = "none"
          /\ UNCHANGED <<USER_INTERESTS, doc, lastSet, everSet, saveFailed,
                         saveFailures>>
     ELSE LET clean_interests == CleanInterests(interests)
              store == setitem(USER_INTERESTS, puch_user_id, clean_interests)
          IN /\ USER_INTERESTS' = store
             /\ \E outcome \in SaveOutcomes :
                  SaveStep(puch_user_id, store, outcome)
             /\ reply' = SetReply(puch_user_id, clean_interests)
             /\ lastSet' = [lastSet EXCEPT ![puch_user_id] = <<"set", interests>>]
             /\ everSet' = everSet \cup {puch_user_id}

\* get_interests with a slip: the dict is persisted after the read.
get_interests_saves(puch_user_id) ==
  /\ request' = [op |-> "get_interests", puch_user_id |-> puch_user_id]
  /\ IF UserIdMissing(puch_user_id)
     THEN /\ reply' = ErrorReply("get_interests", puch_user_id, "INTERNAL_ERROR")
          /\ UNCHANGED <<USER_INTERESTS, doc>>
     ELSE LET store == AfterUserInterests(puch_user_id)
          IN /\ USER_INTERESTS' = store
             /\ doc' = save_user_interests(doc, store, "ok")
             /\ reply' = GetReply(puch_user_id, store[puch_user_id])
  /\ lastSave' = "none"
  /\ newsRequest' = NoNewsRequest
  /\ newsResponse' = NoNewsResponse
  /\ UNCHANGED <<lastSet, everSet, saveFailed, saveFailures>>

\* The tool get_interests.
get_interests(puch_user_id) ==
  /\ request' = [op |-> "get_interests", puch_user_id |-> puch_user_id]
  /\ IF UserIdMissing(puch_user_id)
     THEN \* McpError from _user_interests is caught by `except Exception`
          /\ reply' = ErrorReply("get_interests", puch_user_id, "INTERNAL_ERROR")
          /\ UNCHANGED USER_INTERESTS
     ELSE LET store == AfterUserInterests(puch_user_id)
          IN /\ USER_INTERESTS' = store
             /\ reply' = GetReply(puch_user_id, store[puch_user_id])
  /\ lastSave' = "none"
  /\ newsRequest' = NoNewsRequest
  /\ newsResponse' = NoNewsResponse
  /\ UNCHANGED <<doc, lastSet, everSet, saveFailed, saveFailures>>

\* The tool get_latest_news; `response` is the answer of the news service.
get_latest_news(puch_user_id, response) ==
  /\ request' = [op |-> "get_latest_news", puch_user_id |-> puch_user_id]
  /\ lastSave' = "none"
  /\ UNCHANGED <<doc, lastSet, everSet, saveFailed, saveFailures>>
  /\ IF UserIdMissing(puch_user_id)
     THEN \* McpError from _user_interests is re-raised by `except McpError`
          /\ reply' = ErrorReply("get_latest_news", puch_user_id, "INVALID_PARAMS")
          /\ newsRequest' = NoNewsRequest
          /\ newsResponse' = NoNewsResponse
          /\ UNCHANGED USER_INTERESTS
     ELSE LET store == AfterUserInterests(puch_user_id)
              interests == store[puch_user_id]
          IN /\ USER_INTERESTS' = store
             /\ IF NoInterests(interests)
                THEN /\ reply' = ErrorReply("get_latest_news", puch_user_id,
                                            "INVALID_PARAMS")
                     /\ newsRequest' = NoNewsRequest
                     /\ newsResponse' = NoNewsResponse
                ELSE /\ newsRequest' = <<"get", Query(interests)>>
                     /\ newsResponse' = response
                     /\ reply' = NewsReply(puch_user_id, interests,
                                   fetch_news_by_interests(interests, response))

\* The process stops and starts again: USER_INTERESTS = load_user_interests()
Restart ==
  /\ USER_INTERESTS' = IF load_raises(doc) THEN <<>>
                        ELSE load_user_interests(doc)
  /\ request' = NoRequest
  /\ reply' = IF load_raises(doc) THEN StartupCrash ELSE NoReply
  /\ lastSave' = "none"
  /\ newsRequest' = NoNewsRequest
  /\ newsResponse' = NoNewsResponse
  /\ lastSet' = [i \in Ids |-> Unset]
  /\ saveFailed' = {}
  /\ pending' = {}
  /\ UNCHANGED <<doc, everSet, saveFailures>>

\* -------------------------------------------------------------------------
\* The store and the router: every tool, any identifier, from a first start
\* -------------------------------------------------------------------------

\* The state a process is in after it started from the document `d`, the
\* identifiers in `known` having set interests in earlier processes.
StartedFrom(d, known) ==
  /\ doc = d
  /\ pending = {}
  /\ USER_INTERESTS = IF load_raises(d) THEN <<>> ELSE load_user_interests(d)
  /\ request = NoRequest
  /\ reply = IF load_raises(d) THEN StartupCrash ELSE NoReply
  /\ lastSave = "none"
  /\ newsRequest = NoNewsRequest
  /\ newsResponse = NoNewsResponse
  /\ lastSet = [i \in Ids |-> Unset]
  /\ everSet = known
  /\ saveFailed = {}
  /\ saveFailures = 0

Init == StartedFrom(AbsentDoc, {})

Next ==
  \/ \E id \in Ids, m \in Messages :
       hello_buzzbot(id, m) /\ UNCHANGED pending
  \/ \E id \in Ids, t \in TopicInputs :
       set_interests(id, t) /\ UNCHANGED pending
  \/ \E id \in Ids : get_interests(id) /\ UNCHANGED pending
  \/ \E id \in Ids, r \in NewsResponses :
       get_latest_news(id, r) /\ UNCHANGED pending
  \/ Restart

Spec == Init /\ [][Next]_vars

\* -------------------------------------------------------------------------
\* Round trips: one set_interests call for u1 with any argument up to the
\* bounds, between reads, from a first start or from a document that
\* already holds lists
\* -------------------------------------------------------------------------

\* All strings over `chars` of at most n characters
StringsUpTo(chars, n) == UNION {[1..k -> chars] : k \in 0..n}

\* All lists over `items` of at most n entries
ListsUpTo(items, n) == UNION {[1..k -> items] : k \in 0..n}

RoundTripChars == {" ", "A"}
MaxTopicLen == 2
MaxTopics == 2

RoundTripTopics == ListsUpTo(StringsUpTo(RoundTripChars, MaxTopicLen), MaxTopics)

\* A document written by an earlier process in which u1 and u2 set interests.
PriorDoc ==
  [kind |-> "json",
   members |-> { <<"u1", << <<"b">>, <<"a", "i">> >> >>,
                 <<"u2", << <<"a", "i">> >> >> }]

InitRoundTrip ==
  \/ StartedFrom(AbsentDoc, {})
  \/ StartedFrom(PriorDoc, {"u1", "u2"})

NextRoundTrip ==
  \/ /\ request.op # "set_interests"
     /\ lastSet["u1"] = Unset
     /\ \E t \in RoundTripTopics : set_interests("u1", t)
     /\ UNCHANGED pending
  \/ get_interests("u1") /\ UNCHANGED pending

SpecRoundTrip == InitRoundTrip /\ [][NextRoundTrip]_vars

\* -------------------------------------------------------------------------
\* Ranking: one get_latest_news call of a user with interests "ai" and "b",
\* the news service answering any list of items up to the bound
\* -------------------------------------------------------------------------

RankedInterests == << <<"a", "i">>, <<"b">> >>

\* Items scoring 2, 2, 1 and 0 against RankedInterests
ItemA == TitleOnly(Str(<<"A", "I", " ", "b">>))
ItemB == TitleOnly(Str(<<"b", " ", "a", "i">>))
ItemC == TitleOnly(Str(<<"B">>))
ItemD == TitleOnly(Str(<<"i">>))
NewsItems == {ItemA, ItemB, ItemC, ItemD}

MaxItems == 6

RankedResponses ==
  {[kind |-> "ok", articles |-> a] : a \in ListsUpTo(NewsItems, MaxItems)}

InitNews ==
  StartedFrom([kind |-> "json", members |-> {<<"u1", RankedInterests>>}], {"u1"})

NextNews ==
  /\ request.op = "none"
  /\ \E r \in RankedResponses : get_latest_news("u1", r)
  /\ UNCHANGED pending

SpecNews == InitNews /\ [][NextNews]_vars

\* -------------------------------------------------------------------------
\* Scoring: one get_latest_news call answered with one item, for any title
\* and description up to the bound and any stored list of topics up to the
\* bound
\* -------------------------------------------------------------------------

ScoreChars == {"a", "A", " "}
MaxTextLen == 2
MaxScoreTopics == 2

\* Topics as set_interests stores them: trimmed, lowercase, non-empty
ScoreTopics == { <<"a">>, <<"a", "a">>, <<"a", " ", "a">>, <<"b">> }

\* The example of the specification: topics "ai" and "robotics", the title
\* "AI breakthroughs in robotics", an empty description
ExampleTopics ==
  << <<"a", "i">>, <<"r", "o", "b", "o", "t", "i", "c", "s">> >>
ExampleItem ==
  [title |-> Str(<<"A", "I", " ", "b", "r", "e", "a", "k", "t", "h", "r", "o",
                   "u", "g", "h", "s", " ", "i", "n", " ", "r", "o", "b", "o",
                   "t", "i", "c", "s">>),
   description |-> Str(<<>>), url |-> Absent, publishedAt |-> Absent,
   source |-> Absent]

ScoreTopicLists ==
  (ListsUpTo(ScoreTopics, MaxScoreTopics) \ {<<>>}) \cup {ExampleTopics}

ScoreTexts ==
  {Absent, Null} \cup {Str(s) : s \in StringsUpTo(ScoreChars, MaxTextLen)}

ScoreItems ==
  [title : ScoreTexts, description : ScoreTexts, url : {Absent},
   publishedAt : {Absent}, source : {Absent}] \cup {ExampleItem}

InitScore ==
  \E topics \in ScoreTopicLists :
    StartedFrom([kind |-> "json", members |-> {<<"u1", topics>>}], {"u1"})

NextScore ==
  /\ request.op = "none"
  /\ \E a \in ScoreItems :
       get_latest_news("u1", [kind |-> "ok", articles |-> <<a>>])
  /\ UNCHANGED pending

SpecScore == InitScore /\ [][NextScore]_vars

\* -------------------------------------------------------------------------
\* Concurrent calls: a batch of tool calls is received at once and the event
\* loop runs their handlers in any order. The handlers are coroutines
\* (`async def`) on one event loop; set_interests, get_interests and
\* hello_buzzbot contain no `await`, so each runs from its first statement to
\* its return before the loop runs another one.
\* -------------------------------------------------------------------------

ConcurrentTopicsA == << <<" ", "A", "I", "\t">>, <<>>, <<"b">> >>
ConcurrentTopicsB == << <<"B", " ">>, <<" ", " ">>, <<"A", "i">>, <<"b">> >>
ConcurrentTopicsC == << <<"b">>, <<"B">> >>

Call(n, op, id, interests, message) ==
  [n |-> n, op |-> op, puch_user_id |-> id, interests |-> interests,
   user_message |-> message]

\* Two valid set_interests calls for u1, one for u2, a rejected one for u1,
\* and two reads.
ConcurrentCalls ==
  { Call(1, "set_interests", "u1", ConcurrentTopicsA, <<>>),
    Call(2, "set_interests", "u1", ConcurrentTopicsB, <<>>),
    Call(3, "set_interests", "u2", ConcurrentTopicsC, <<>>),
    Call(4, "set_interests", "u1", << <<" ">> >>, <<>>),
    Call(5, "get_interests", "u1", <<>>, <<>>),
    Call(6, "hello_buzzbot", "u2", <<>>, <<"H", "i">>) }

InitConcurrent ==
  /\ doc = AbsentDoc
  /\ USER_INTERESTS = load_user_interests(AbsentDoc)
  /\ request = NoRequest
  /\ reply = NoReply
  /\ lastSave = "none"
  /\ newsRequest = NoNewsRequest
  /\ newsResponse = NoNewsResponse
  /\ lastSet = [i \in Ids |-> Unset]
  /\ everSet = {}
  /\ saveFailed = {}
  /\ saveFailures = 0
  /\ pending = ConcurrentCalls

\* The event loop picks a received call and runs its handler to its return.
RunPending(c) ==
  /\ pending' = pending \ {c}
  /\ \/ c.op = "set_interests" /\ set_interests(c.puch_user_id, c.interests)
     \/ c.op = "get_interests" /\ get_interests(c.puch_user_id)
     \/ c.op = "hello_buzzbot"
          /\ hello_buzzbot(c.puch_user_id, c.user_message)

NextConcurrent == \E c \in pending : RunPending(c)

SpecConcurrent == InitConcurrent /\ [][NextConcurrent]_vars

\* -------------------------------------------------------------------------
\* Startup: the process starts from any document a file system can hold,
\* then serves reads and writes and may be started again.
\* -------------------------------------------------------------------------

StartupDocs ==
  {AbsentDoc, CorruptDoc, UnreadableDoc, UndecodableDoc, PriorDoc}

InitStartup ==
  \E d \in StartupDocs :
    StartedFrom(d, IF d = PriorDoc THEN {"u1", "u2"} ELSE {})

\* A process whose startup raised serves nothing; it can be started again.
NextStartup ==
  \/ /\ reply # StartupCrash
     /\ \E id \in Ids : get_interests(id)
     /\ UNCHANGED pending
  \/ /\ reply # StartupCrash
     /\ \E id \in Ids, t \in TopicInputs : set_interests(id, t)
     /\ UNCHANGED pending
  \/ Restart

SpecStartup == InitStartup /\ [][NextStartup]_vars

\* -------------------------------------------------------------------------
\* Normalization: one get_latest_news call for a user with one topic, the
\* news service answering with raw items in which any field is a string,
\* null or absent, alone or in lists longer than the page.
\* -------------------------------------------------------------------------

FieldValues == {Absent, Null, Str(<<"a">>)}
SourceValues == {Absent, Null, Obj(Absent), Obj(Null), Obj(Str(<<"s">>))}

RawItems ==
  [title : FieldValues, description : FieldValues, url : FieldValues,
   publishedAt : FieldValues, source : SourceValues]

FullItem ==
  [title |-> Str(<<"a">>), description |-> Str(<<"a">>), url |-> Str(<<"a">>),
   publishedAt |-> Str(<<"a">>), source |-> Obj(Str(<<"s">>))]

BareItem ==
  [title |-> Absent, description |-> Absent, url |-> Absent,
   publishedAt |-> Absent, source |-> Absent]

\* Every raw item alone, the empty list, and lists of up to seven items with
\* no null field.
RawResponses ==
  {[kind |-> "ok", articles |-> <<a>>] : a \in RawItems}
  \cup {[kind |-> "ok", articles |-> [i \in 1..n |-> FullItem]] : n \in 0..7}
  \cup {[kind |-> "ok", articles |->
           [i \in 1..n |-> IF i % 2 = 0 THEN BareItem ELSE FullItem]] :
         n \in 2..7}

InitNormalize ==
  StartedFrom([kind |-> "json", members |-> {<<"u1", << <<"a">> >> >>}], {"u1"})

NextNormalize ==
  /\ request.op = "none"
  /\ \E r \in RawResponses : get_latest_news("u1", r)
  /\ UNCHANGED pending

SpecNormalize == InitNormalize /\ [][NextNormalize]_vars

\* -------------------------------------------------------------------------
\* What the specification says, in its own terms
\* -------------------------------------------------------------------------

\* s is empty or whitespace only
IsBlank(s) == \A i \in 1..Len(s) : s[i] \in Whitespace

\* s without its surrounding whitespace
Trimmed(s) ==
  IF IsBlank(s) THEN <<>>
  ELSE LET inked == {i \in 1..Len(s) : s[i] \notin Whitespace}
           first == CHOOSE i \in inked : \A j \in inked : i <= j
           last == CHOOSE i \in inked : \A j \in inked : j <= i
       IN [k \in 1..(last - first + 1) |-> s[first + k - 1]]

UpperLetters == <<"A", "B", "H", "I">>
LowerLetters == <<"a", "b", "h", "i">>

\* s with every upper-case letter replaced by its lower-case letter
Lowercased(s) ==
  [i \in 1..Len(s) |->
     IF \E k \in 1..Len(UpperLetters) : UpperLetters[k] = s[i]
     THEN LowerLetters[CHOOSE k \in 1..Len(UpperLetters) : UpperLetters[k] = s[i]]
     ELSE s[i]]

\* The normalized list: the entries that are not blank, in the order
\* supplied, each trimmed and lowercased
NormalizedTopics(topics) ==
  LET kept == {i \in 1..Len(topics) : ~IsBlank(topics[i])}
      nth(k) == CHOOSE i \in kept : Cardinality({j \in kept : j < i}) = k - 1
  IN [k \in 1..Cardinality(kept) |-> Lowercased(Trimmed(topics[nth(k)]))]

\* Every entry of topics is blank (so is the empty list)
AllBlank(topics) == \A i \in 1..Len(topics) : IsBlank(topics[i])

\* The identifier has no interests in the store
HasNoInterests(store, id) == id \notin DOMAIN store \/ store[id] = <<>>

\* t occurs in text as a run of consecutive characters
OccursIn(t, text) ==
  \E a \in 0..Len(text) : \E b \in a..Len(text) : SubSeq(text, a + 1, b) = t

\* How many entries of topics occur in text, case-insensitively
TopicsFound(topics, text) ==
  Cardinality({i \in 1..Len(topics) :
                 OccursIn(Lowercased(topics[i]), Lowercased(text))})

\* The ways the call to the news service fails
FetchFailures == {"timeout", "connection_error", "http_error"}

\* -------------------------------------------------------------------------
\* The claims
\* -------------------------------------------------------------------------

\* C1: get_interests(id) of a non-empty identifier after a successful
\* set_interests(id, topics), no other set_interests(id) in between, returns
\* the non-blank entries of topics trimmed and lowercased, in the order
\* supplied, and their number as count; the list id had before is replaced.
RoundTrip ==
  (/\ request.op = "get_interests"
   /\ request.puch_user_id # ""
   /\ lastSet[request.puch_user_id] # Unset)
  => /\ reply.status = "ok"
     /\ reply.interests = NormalizedTopics(lastSet[request.puch_user_id][2])
     /\ reply.count = Len(NormalizedTopics(lastSet[request.puch_user_id][2]))

\* u1, who had the list ["b", "ai"], set [" A", " "], the write failed, and
\* get_interests returns ["a"]
RoundTripWitness ==
  /\ request.op = "get_interests"
  /\ request.puch_user_id = "u1"
  /\ lastSet["u1"] = <<"set", << <<" ", "A">>, <<" ">> >> >>
  /\ doc = PriorDoc
  /\ reply.status = "ok"
  /\ reply.interests = << <<"a">> >>
  /\ reply.count = 1

\* C2: every tool called with the empty identifier fails with INVALID_PARAMS
\* and nothing is stored under the empty identifier.
EmptyIdRejected ==
  (request.op # "none" /\ request.puch_user_id = "")
  => /\ reply.status = "INVALID_PARAMS"
     /\ "" \notin DOMAIN USER_INTERESTS
     /\ "" \notin DOMAIN load_user_interests(doc)

\* C3: set_interests with the empty list or with blank entries only fails
\* with INVALID_PARAMS and leaves USER_INTERESTS and the document as they were.
BlankTopicsRejected ==
  [][(request'.op = "set_interests" /\ AllBlank(request'.interests))
     => /\ reply'.status = "INVALID_PARAMS"
        /\ USER_INTERESTS' = USER_INTERESTS
        /\ doc' = doc]_vars

\* u1 and u2 have lists, in memory and in the document; set_interests of u1
\* with [" ", ""] was rejected and the lists are still there
BlankTopicsRejectedWitness ==
  /\ request.op = "set_interests"
  /\ request.interests = << <<" ">>, <<>> >>
  /\ reply.status = "INVALID_PARAMS"
  /\ doc = PriorDoc
  /\ USER_INTERESTS = load_user_interests(PriorDoc)

\* C4: get_latest_news for an identifier with no interests (no entry, or an
\* empty one) fails with INVALID_PARAMS and sends nothing to the news service.
NoInterestsNoFetch ==
  [][(/\ request'.op = "get_latest_news"
      /\ HasNoInterests(USER_INTERESTS, request'.puch_user_id))
     => /\ reply'.status = "INVALID_PARAMS"
        /\ newsRequest' = NoNewsRequest]_vars

\* get_latest_news of u1, who has an empty entry only, was rejected while u2
\* has interests
NoInterestsNoFetchWitness ==
  /\ request.op = "get_latest_news"
  /\ request.puch_user_id = "u1"
  /\ reply.status = "INVALID_PARAMS"
  /\ "u1" \in DOMAIN USER_INTERESTS
  /\ "u1" \in DOMAIN load_user_interests(doc)
  /\ "u2" \in DOMAIN USER_INTERESTS
  /\ USER_INTERESTS["u2"] # <<>>

\* C5: get_interests of a non-empty identifier for which no set_interests
\* ever succeeded returns the empty list and count 0, and does not fail.
UnknownIdReadsEmpty ==
  (/\ request.op = "get_interests"
   /\ request.puch_user_id # ""
   /\ request.puch_user_id \notin everSet)
  => /\ reply.status = "ok"
     /\ reply.interests = <<>>
     /\ reply.count = 0

\* u1 never set interests, was read before (its empty entry is in the
\* document u2's set_interests wrote), and is read again
UnknownIdReadsEmptyWitness ==
  /\ request.op = "get_interests"
  /\ request.puch_user_id = "u1"
  /\ "u1" \notin everSet
  /\ "u2" \in everSet
  /\ "u1" \in DOMAIN load_user_interests(doc)
  /\ reply.status = "ok"
  /\ reply.count = 0

\* C6: when the call to the news service times out, fails in transport or
\* returns a non-success status, get_latest_news answers with the no-articles
\* notice (no articles, count 0), not with a failure, and USER_INTERESTS and
\* the document are as they were.
FailedFetchDegrades ==
  [][(newsResponse'.kind \in FetchFailures)
     => /\ reply'.op = "get_latest_news"
        /\ reply'.status = "ok"
        /\ reply'.next_action = "no_news_found"
        /\ reply'.articles = <<>>
        /\ reply'.news_count = 0
        /\ USER_INTERESTS' = USER_INTERESTS
        /\ doc' = doc]_vars

\* The news service answered u1's request with a non-success status and u1
\* got the no-articles notice
FailedFetchDegradesWitness ==
  /\ request.op = "get_latest_news"
  /\ request.puch_user_id = "u1"
  /\ newsRequest # NoNewsRequest
  /\ newsResponse.kind = "http_error"
  /\ reply.status = "ok"
  /\ reply.next_action = "no_news_found"

\* The answer of the news service is formatted without an exception
FetchSucceeds(response) ==
  /\ response.kind = "ok"
  /\ \A i \in 1..Len(response.articles) :
       i <= PageSize =>
         ~(relevance_raises(response.articles[i]) \/ source_raises(response.articles[i]))

\* The first PageSize items of the answer, formatted, in the order received
CappedInput(response, interests) ==
  [i \in 1..(IF Len(response.articles) < PageSize
             THEN Len(response.articles) ELSE PageSize) |->
     FormatArticle(response.articles[i], interests)]

\* The articles of `articles` that score v, in their order
WithScore(articles, v) ==
  LET scores(a) == a.relevance_score = v IN SelectSeq(articles, scores)

\* C7: the articles a successful fetch returns are the capped input
\* reordered: scores do not increase from first to last, and the articles of
\* equal score are in the order the news service returned them.
RankingStable ==
  (/\ request.op = "get_latest_news"
   /\ reply.status = "ok"
   /\ FetchSucceeds(newsResponse))
  => LET out == reply.articles
         inp == CappedInput(newsResponse, reply.interests)
     IN /\ Len(out) = Len(inp)
        /\ \A i \in 1..Len(out) : \A j \in i..Len(out) :
             out[i].relevance_score >= out[j].relevance_score
        /\ \A i \in 1..Len(inp) :
             WithScore(out, inp[i].relevance_score)
               = WithScore(inp, inp[i].relevance_score)

\* The news service returned C, A, B scoring 1, 2, 2 and the reply lists
\* A, B, C
RankingStableWitness ==
  /\ request.op = "get_latest_news"
  /\ newsResponse.kind = "ok"
  /\ newsResponse.articles = <<ItemC, ItemA, ItemB>>
  /\ reply.status = "ok"
  /\ reply.articles = << FormatArticle(ItemA, RankedInterests),
                         FormatArticle(ItemB, RankedInterests),
                         FormatArticle(ItemC, RankedInterests) >>
  /\ reply.articles[1].relevance_score = 2
  /\ reply.articles[2].relevance_score = 2
  /\ reply.articles[3].relevance_score = 1

\* C8 as stated: the score of a returned article is the number of topics
\* that occur, case-insensitively, in its title immediately followed by its
\* description.
ScoreOverJoinedText ==
  (request.op = "get_latest_news" /\ reply.status = "ok")
  => \A i \in 1..Len(reply.articles) :
       reply.articles[i].relevance_score
         = TopicsFound(reply.interests,
                       reply.articles[i].title[2] \o reply.articles[i].description[2])

\* C8 as amended: the score of a returned article is the number of topics
\* that occur, case-insensitively, in its title, one space and its
\* description, each topic counting once.
ScoreOverSpacedText ==
  (request.op = "get_latest_news" /\ reply.status = "ok")
  => \A i \in 1..Len(reply.articles) :
       reply.articles[i].relevance_score
         = TopicsFound(reply.interests,
                       reply.articles[i].title[2] \o <<" ">>
                         \o reply.articles[i].description[2])

\* Topics "a" and "a a", title "A", description "a": both topics are found
\* in "a a", the first of them twice, and the score is 2
ScoreOverSpacedTextWitness ==
  /\ request.op = "get_latest_news"
  /\ reply.status = "ok"
  /\ reply.interests = << <<"a">>, <<"a", " ", "a">> >>
  /\ Len(reply.articles) = 1
  /\ reply.articles[1].title = Str(<<"A">>)
  /\ reply.articles[1].description = Str(<<"a">>)
  /\ reply.articles[1].relevance_score = 2

\* C9: when set_interests succeeded and its write succeeded, the document
\* holds the whole of USER_INTERESTS, and a process started from it answers
\* get_interests of the (non-empty) identifier with the list that was set.
WriteThrough ==
  (request.op = "set_interests" /\ reply.status = "ok" /\ lastSave = "ok")
  => /\ doc.kind = "json"
     /\ load_user_interests(doc) = USER_INTERESTS
     /\ request.puch_user_id # "" =>
          LET restarted ==
                setdefault(load_user_interests(doc), request.puch_user_id, <<>>)
          IN GetReply(request.puch_user_id, restarted[request.puch_user_id]).interests
               = NormalizedTopics(request.interests)

\* u1's set_interests was written while u2 has a list and the empty
\* identifier has none
WriteThroughWitness ==
  /\ request.op = "set_interests"
  /\ request.puch_user_id = "u1"
  /\ reply.status = "ok"
  /\ lastSave = "ok"
  /\ "u2" \in DOMAIN USER_INTERESTS
  /\ USER_INTERESTS["u2"] # <<>>
  /\ "u2" \in DOMAIN load_user_interests(doc)

\* A read of the identifier's list by hello_buzzbot, get_interests or
\* get_latest_news that did not fail
ReadList ==
  IF reply.op = "hello_buzzbot" THEN reply.current_interests ELSE reply.interests

\* C10: when the write of a valid set_interests fails, the call still
\* succeeds and the new list is in memory; later reads of the identifier in
\* the same process return it; and the next write that succeeds puts it in
\* the document.
FailedWriteKeepsMemory ==
  /\ (request.op = "set_interests" /\ lastSave \in {"open_fails", "write_fails"})
     => /\ reply.status = "ok"
        /\ USER_INTERESTS[request.puch_user_id]
             = NormalizedTopics(request.interests)
  /\ (/\ request.op \in {"hello_buzzbot", "get_interests", "get_latest_news"}
      /\ request.puch_user_id # ""
      /\ request.puch_user_id \in saveFailed)
     => /\ reply.status = "ok"
        /\ ReadList = NormalizedTopics(lastSet[request.puch_user_id][2])
  /\ lastSave = "ok"
     => \A id \in saveFailed :
          /\ id \in DOMAIN load_user_interests(doc)
          /\ load_user_interests(doc)[id] = NormalizedTopics(lastSet[id][2])

\* u1's write failed, u2's later write succeeded, and the document holds the
\* list u1 set
FailedWriteKeepsMemoryWitness ==
  /\ request.op = "set_interests"
  /\ request.puch_user_id = "u2"
  /\ lastSave = "ok"
  /\ "u1" \in saveFailed
  /\ "u1" \in DOMAIN load_user_interests(doc)
  /\ load_user_interests(doc)["u1"] = << <<"a", "i">>, <<"b">> >>

\* The valid set_interests calls of the batch for the identifier `id`.
ValidSetCalls(id) ==
  {c \in ConcurrentCalls :
     /\ c.op = "set_interests"
     /\ c.puch_user_id = id
     /\ ~AllBlank(c.interests)}

\* C11: once every concurrently received call has returned, for each
\* identifier with valid set_interests calls in the batch the in-memory list
\* is the complete normalized list of exactly one of those calls (no lost or
\* mixed update, nothing overwritten by another identifier's call), and when
\* no persistence write failed the durable document holds that same list.
NoLostUpdate ==
  pending = {} =>
    \A id \in {c.puch_user_id : c \in ConcurrentCalls} :
      ValidSetCalls(id) # {} =>
        /\ id \in DOMAIN USER_INTERESTS
        /\ \E c \in ValidSetCalls(id) :
             USER_INTERESTS[id] = NormalizedTopics(c.interests)
        /\ saveFailures = 0 =>
             /\ doc.kind = "json"
             /\ <<id, USER_INTERESTS[id]>> \in doc.members

\* Every call of the batch has returned with every write persisted; u1's
\* second call ran before its first, and u2's call ran last.
NoLostUpdateWitness ==
  /\ pending = {}
  /\ saveFailures = 0
  /\ request.op = "set_interests"
  /\ request.puch_user_id = "u2"
  /\ USER_INTERESTS["u1"] = NormalizedTopics(ConcurrentTopicsA)
  /\ <<"u1", NormalizedTopics(ConcurrentTopicsA)>> \in doc.members
  /\ <<"u2", NormalizedTopics(ConcurrentTopicsC)>> \in doc.members

\* C12: startup load never fails: the process always comes up, and started
\* from a document that is absent, unreadable or unparseable it holds the
\* empty store, so that until a set_interests is accepted every get_interests
\* returns the empty list.
StartupNeverFails ==
  /\ reply # StartupCrash
  /\ (doc.kind # "json" /\ \A i \in Ids : lastSet[i] = Unset) =>
       /\ \A k \in DOMAIN USER_INTERESTS : USER_INTERESTS[k] = <<>>
       /\ (request.op = "get_interests" /\ request.puch_user_id # "") =>
            reply.status = "ok" /\ reply.interests = <<>>

\* A field of a raw item read as the specification reads it: the empty
\* string when the key is absent or null.
OrEmpty(member) == IF member \in {Absent, Null} THEN Str(<<>>) ELSE member

\* The source name of a raw item, the empty string when the source or its
\* name is absent or null.
SourceNameOrEmpty(item) ==
  IF item.source \in {Absent, Null} THEN Str(<<>>)
  ELSE OrEmpty(item.source[2])

\* The article `a` is the raw item `item` with every missing field empty.
NormalizedFrom(a, item) ==
  /\ a.title = OrEmpty(item.title)
  /\ a.description = OrEmpty(item.description)
  /\ a.url = OrEmpty(item.url)
  /\ a.published_at = OrEmpty(item.publishedAt)
  /\ a.source = SourceNameOrEmpty(item)

Min(a, b) == IF a < b THEN a ELSE b

\* C13: for a successful response with n raw items, each possibly lacking
\* any of its fields (absent or null), the fetch returns exactly min(n, 5)
\* articles, one per raw item among the first five with every missing field
\* the empty string, and the reported count is the length of the returned
\* list and at most 5.
NormalizedAndCapped ==
  (request.op = "get_latest_news" /\ newsResponse.kind = "ok") =>
    LET raw == newsResponse.articles
        k == Min(Len(raw), PageSize)
    IN /\ reply.status = "ok"
       /\ Len(reply.articles) = k
       /\ reply.news_count = Len(reply.articles)
       /\ reply.news_count <= PageSize
       /\ \E p \in [1..k -> 1..k] :
            /\ \A i, j \in 1..k : p[i] = p[j] => i = j
            /\ \A i \in 1..k : NormalizedFrom(reply.articles[i], raw[p[i]])

\* C14 as stated: a hello_buzzbot call leaves the in-memory mapping (its keys
\* and every list) and the durable document exactly as they were.
GreetPureRead ==
  [][request'.op = "hello_buzzbot" =>
       USER_INTERESTS' = USER_INTERESTS /\ doc' = doc]_vars

\* C14, amended: a hello_buzzbot call leaves the durable document and every
\* list already in memory unchanged; the only change it can make is to add
\* an empty list for its own non-empty identifier when that was unknown.
GreetAddsOnlyEmptyEntry ==
  [][request'.op = "hello_buzzbot" =>
       /\ doc' = doc
       /\ \A k \in DOMAIN USER_INTERESTS :
            k \in DOMAIN USER_INTERESTS' /\ USER_INTERESTS'[k] = USER_INTERESTS[k]
       /\ \A k \in DOMAIN USER_INTERESTS' \ DOMAIN USER_INTERESTS :
            /\ k = request'.puch_user_id
            /\ k # ""
            /\ USER_INTERESTS'[k] = <<>>]_vars

\* u2 has a stored list and hello_buzzbot was called for u1, unknown until
\* then: u1 now has an empty entry in memory and none in the document.
GreetAddsOnlyEmptyEntryWitness ==
  /\ request.op = "hello_buzzbot"
  /\ request.puch_user_id = "u1"
  /\ DOMAIN USER_INTERESTS = {"u1", "u2"}
  /\ USER_INTERESTS["u1"] = <<>>
  /\ USER_INTERESTS["u2"] # <<>>
  /\ doc.kind = "json"
  /\ \A m \in doc.members : m[1] # "u1"

\* The entries of a document, none when it does not parse.
Entries(d) == IF d.kind = "json" THEN d.members ELSE {}

\* C15: the durable document is written only by a set_interests call that
\* passes validation: every other call (hello_buzzbot, get_interests,
\* get_latest_news whatever the news service answers, a rejected
\* set_interests) leaves it unchanged; an empty entry appears in the document
\* only in a successfully persisted set_interests, which writes every empty
\* entry that reads had created in memory.
WrittenOnlyBySet ==
  [][/\ (request'.op # "set_interests" \/ reply'.status # "ok") => doc' = doc
     /\ \A m \in Entries(doc') \ Entries(doc) :
          m[2] = <<>> =>
            /\ request'.op = "set_interests"
            /\ reply'.status = "ok"
            /\ lastSave' = "ok"
            /\ m[1] \in DOMAIN USER_INTERESTS
            /\ USER_INTERESTS[m[1]] = <<>>
     /\ (request'.op = "set_interests" /\ lastSave' = "ok") =>
          \A k \in DOMAIN USER_INTERESTS \ {request'.puch_user_id} :
            USER_INTERESTS[k] = <<>> => <<k, <<>>>> \in Entries(doc')]_vars

\* A read created an empty entry for u1 and a later set_interests of u2 was
\* persisted: the document now holds u1's empty list next to u2's list.
WrittenOnlyBySetWitness ==
  /\ request.op = "set_interests"
  /\ request.puch_user_id = "u2"
  /\ lastSave = "ok"
  /\ <<"u1", <<>>>> \in Entries(doc)
  /\ "u2" \in DOMAIN USER_INTERESTS
  /\ <<"u2", USER_INTERESTS["u2"]>> \in Entries(doc)

\* The list get_interests would return for `id` from the mapping `store`.
ListOf(store, id) == IF id \in DOMAIN store THEN store[id] ELSE <<>>

\* C16: per-identifier isolation: a call made with identifier a, whatever the
\* tool and whether it succeeds or fails, leaves the list of every other
\* identifier b as it was in memory, and when a's set_interests wrote the
\* durable document a process restarted from that document reads the same
\* list for b.
Isolation ==
  [][request'.op # "none" =>
       \A b \in Ids \ {request'.puch_user_id} :
         /\ ListOf(USER_INTERESTS', b) = ListOf(USER_INTERESTS, b)
         /\ (request'.op = "set_interests" /\ lastSave' = "ok") =>
              ListOf(load_user_interests(doc'), b) = ListOf(USER_INTERESTS, b)]_vars

\* u1's set_interests was persisted while u2 holds a different list: u2's
\* list is still in memory and in the document u1's call wrote.
IsolationWitness ==
  /\ request.op = "set_interests"
  /\ request.puch_user_id = "u1"
  /\ lastSave = "ok"
  /\ ListOf(USER_INTERESTS, "u2") # <<>>
  /\ ListOf(USER_INTERESTS, "u2") # ListOf(USER_INTERESTS, "u1")
  /\ ListOf(load_user_interests(doc), "u2") = ListOf(USER_INTERESTS, "u2")

\* Every string of the list is non-empty, has no leading or trailing
\* whitespace and has no upper-case letter.
WellFormedTopics(list) ==
  \A i \in 1..Len(list) :
    /\ list[i] # <<>>
    /\ list[i][1] \notin Whitespace
    /\ list[i][Len(list[i])] \notin Whitespace
    /\ \A j \in 1..Len(list[i]), k \in 1..Len(UpperLetters) :
         list[i][j] # UpperLetters[k]

\* The list is empty or the complete normalized list of one accepted
\* set_interests argument.
EmptyOrFromOneSet(list) ==
  \/ list = <<>>
  \/ \E t \in TopicInputs : ~AllBlank(t) /\ list = NormalizedTopics(t)

\* C17: starting from an absent document, in every reachable state every
\* list stored in memory and in the durable document holds only non-empty,
\* trimmed, lowercase strings, and is either empty (created by a read) or
\* the list produced by one successful set_interests.
InterestSetInvariant ==
  /\ \A k \in DOMAIN USER_INTERESTS :
       WellFormedTopics(USER_INTERESTS[k]) /\ EmptyOrFromOneSet(USER_INTERESTS[k])
  /\ \A m \in Entries(doc) :
       WellFormedTopics(m[2]) /\ EmptyOrFromOneSet(m[2])

\* u1 holds the list cleaned from an argument with blanks, surrounding
\* whitespace and capitals, u2 holds the empty list a read created, and the
\* document holds both.
InterestSetInvariantWitness ==
  /\ lastSet["u1"] = <<"set", << <<" ", "A", "I", "\t">>, <<>>, <<"b">> >> >>
  /\ ListOf(USER_INTERESTS, "u1") = << <<"a", "i">>, <<"b">> >>
  /\ "u2" \in DOMAIN USER_INTERESTS
  /\ USER_INTERESTS["u2"] = <<>>
  /\ <<"u1", << <<"a", "i">>, <<"b">> >> >> \in Entries(doc)
  /\ <<"u2", <<>>>> \in Entries(doc)

\* The message contains "hello" or "hi", letters compared without case.
SaysHello(message) ==
  \/ OccursIn(<<"h", "e", "l", "l", "o">>, Lowercased(message))
  \/ OccursIn(<<"h", "i">>, Lowercased(message))

\* C18 as stated: for every non-empty identifier and every message, the reply
\* of hello_buzzbot is decided by the stored list alone: ready_for_news
\* listing the topics when it is non-empty, need_interests when it is empty.
GreetByInterestSetAlone ==
  (request.op = "hello_buzzbot" /\ request.puch_user_id # "") =>
    LET list == ListOf(USER_INTERESTS, request.puch_user_id)
    IN /\ reply.current_interests = list
       /\ reply.next_action =
            IF list # <<>> THEN "ready_for_news" ELSE "need_interests"

\* C18, amended: for every non-empty identifier, a message that contains
\* "hello" or "hi" gets ready_for_news listing the topics when the stored
\* list is non-empty and need_interests when it is empty; any other message
\* gets general_help listing the stored topics.
GreetByMessageAndInterestSet ==
  (request.op = "hello_buzzbot" /\ request.puch_user_id # "") =>
    LET list == ListOf(USER_INTERESTS, request.puch_user_id)
    IN /\ reply.status = "ok"
       /\ reply.current_interests = list
       /\ reply.next_action =
            IF SaysHello(request.user_message)
            THEN (IF list # <<>> THEN "ready_for_news" ELSE "need_interests")
            ELSE "general_help"

\* u1 has topics and said "Hi": the reply offers news for those topics.
GreetByMessageAndInterestSetWitness ==
  /\ request.op = "hello_buzzbot"
  /\ request.puch_user_id = "u1"
  /\ request.user_message = <<"H", "i">>
  /\ ListOf(USER_INTERESTS, "u1") # <<>>
  /\ reply.next_action = "ready_for_news"
  /\ reply.current_interests = USER_INTERESTS["u1"]

\* The distinct topics of the list.
DistinctTopics(topics) == {topics[i] : i \in 1..Len(topics)}

\* The number of distinct topics that occur in the text, case-insensitively.
DistinctTopicsFound(topics, text) ==
  Cardinality({t \in DistinctTopics(topics) :
                 OccursIn(Lowercased(t), Lowercased(text))})

\* C19: for every returned article and every stored list, lists holding the
\* same topic more than once included, the relevance score is the number of
\* distinct topics found in the article's title and description, and so it
\* never exceeds the number of distinct topics of the list.
ScoreCountsDistinctTopics ==
  (request.op = "get_latest_news" /\ reply.status = "ok")
  => \A i \in 1..Len(reply.articles) :
       /\ reply.articles[i].relevance_score
            = DistinctTopicsFound(reply.interests,
                                  reply.articles[i].title[2] \o <<" ">>
                                    \o reply.articles[i].description[2])
       /\ reply.articles[i].relevance_score
            <= Cardinality(DistinctTopics(reply.interests))

====
